---- MODULE Spec2Model ----
(***************************************************************************)
(* A model of vist_toml (src/vist_toml/src/lib.rs): path lookup and the    *)
(* two schema extractors of Manifest over a toml_document tree, and the    *)
(* flat pointer+length buffers (RawSlice, OwnedSlice, BorrowedSlice).      *)
(***************************************************************************)
EXTENDS Integers, Sequences, FiniteSets, TLC

VARIABLES doc,      \* Manifest.doc: the root table of the Document
          path,     \* the key path queried
          op,       \* the last operation applied
          result,   \* what that operation returned
          acc,      \* the extractor's two local vectors when it decides Ok or Err
          slots,    \* the flat buffers handed out so far
          heap,     \* address -> contents of every block ever allocated
          frees     \* address -> number of times the block was deallocated

vars == <<doc, path, op, result, acc, slots, heap, frees>>

(***************************************************************************)
(* Bounds of the model.                                                    *)
(***************************************************************************)
MaxDepth == 2       \* nesting of tables below the root in query documents
MaxPathLen == 3     \* longest key path queried
MaxArrayLen == 3    \* longest array in a document
MaxFields == 2      \* most fields in one dependency or target entry table
MaxSlots == 2       \* flat buffers handed out
MaxLen == 2         \* longest string or vector marshaled
MaxDrops == 2       \* releases applied to one buffer

(***************************************************************************)
(* Document nodes: toml_document::EntryRef.  A table is the sequence of    *)
(* its <<key, node>> pairs in iteration order, keys distinct.              *)
(***************************************************************************)
EString(s) == [kind |-> "string", val |-> s]
EInteger(i) == [kind |-> "integer", val |-> i]
EBoolean(b) == [kind |-> "boolean", val |-> b]
EArray(elems) == [kind |-> "array", val |-> elems]
ETable(entries) == [kind |-> "table", val |-> entries]

\* Option<T>: None is <<>>, Some(x) is <<x>>.
None == <<>>
Some(x) == <<x>>
IsSome(o) == o # <<>>
Unwrap(o) == o[1]

\* TableEntry::get / Document::get
table_get(table, key) ==
  LET hits == {i \in 1..Len(table.val) : table.val[i][1] = key}
  IN  IF hits = {} THEN None
      ELSE Some(table.val[CHOOSE i \in hits : \A j \in hits : i <= j][2])

entry_kind(e) ==
  CASE e.kind = "string" -> "string"
    [] e.kind = "integer" -> "integer"
    [] e.kind = "float" -> "float"
    [] e.kind = "boolean" -> "boolean"
    [] e.kind = "datetime" -> "datetime"
    [] e.kind = "array" -> "array"
    [] e.kind = "table" -> "table"

array_kind(e) ==
  IF Len(e.val) = 0 THEN None
  ELSE LET first == e.val[1]
       IN CASE first.kind = "string" -> Some("array of strings")
            [] first.kind = "integer" -> Some("array of integers")
            [] first.kind = "float" -> Some("array of floats")
            [] first.kind = "boolean" -> Some("array of booleans")
            [] first.kind = "datetime" -> Some("array of datetimes")
            [] first.kind = "array" -> Some("array of arrays")
            [] first.kind = "table" -> Some("array of tables")

(***************************************************************************)
(* Outcomes.  Panic is an unwind out of the operation.                     *)
(***************************************************************************)
Ok(v) == [tag |-> "Ok", val |-> v]
Err(e) == [tag |-> "Err", val |-> e]
Vacant(d) == [tag |-> "Vacant", depth |-> d]
Conflict(d, k) == [tag |-> "Conflict", depth |-> d, kind |-> k]
Panic == [tag |-> "Panic"]
NoResult == [tag |-> "None"]
NoAcc == [items |-> <<>>, errors |-> <<>>]

(***************************************************************************)
(* Manifest::lookup                                                        *)
(***************************************************************************)
RECURSIVE lookup_inner(_, _, _)
lookup_inner(entry, p, depth) ==
  IF Len(p) = 0 THEN Ok(entry)
  ELSE IF entry.kind = "table"
       THEN LET e == table_get(entry, p[1])
            IN  IF IsSome(e) THEN lookup_inner(Unwrap(e), Tail(p), depth + 1)
                ELSE Vacant(depth)
       ELSE Conflict(depth, entry_kind(entry))

\* lookup with the first segment counted as depth 1
lookup_from_one(d, p) ==
  LET e == table_get(d, p[1])
  IN  IF IsSome(e) THEN lookup_inner(Unwrap(e), Tail(p), 1)
      ELSE Vacant(0)

lookup(d, p) ==
  LET e == table_get(d, p[1])
  IN  IF IsSome(e) THEN lookup_inner(Unwrap(e), Tail(p), 0)
      ELSE Vacant(0)

(***************************************************************************)
(* Manifest::get_string, Manifest::get_string_array                        *)
(***************************************************************************)
get_string(d, p) ==
  LET r == lookup(d, p)
  IN  IF r.tag = "Ok"
      THEN IF r.val.kind = "string" THEN Ok(r.val.val)
           ELSE Conflict(Len(p), entry_kind(r.val))
      ELSE r

\* the helper of get_string_array: unreachable!() on a non-string entry
string_value(entry) ==
  IF entry.kind = "string" THEN Ok(entry.val) ELSE Panic

get_string_array(d, p) ==
  LET r == lookup(d, p)
  IN  IF r.tag = "Ok"
      THEN IF r.val.kind = "array"
           THEN LET array == r.val.val
                IN  IF Len(array) = 0 THEN Ok(<<>>)
                    ELSE IF array[1].kind = "string"
                         THEN IF \E i \in 1..Len(array) : string_value(array[i]) = Panic
                              THEN Panic
                              ELSE Ok([i \in 1..Len(array) |-> string_value(array[i]).val])
                         ELSE Conflict(Len(p), entry_kind(array[1]))
           ELSE Conflict(Len(p), entry_kind(r.val))
      ELSE r


(***************************************************************************)
(* Manifest::get_dependencies                                              *)
(***************************************************************************)
PathError(p, expected, got) == [path |-> p, expected |-> expected, got |-> got]

Dependency_simple(name, target, version) ==
  [name |-> name, version |-> Some(version), git |-> None, path |-> None,
   target |-> target]

\* get_string inside Dependency::complex
complex_get_string(tabl, key) ==
  LET e == table_get(tabl, key)
  IN  IF IsSome(e) /\ Unwrap(e).kind = "string" THEN Some(Unwrap(e).val) ELSE None

\* Dependency::complex reading git from the `path` key
Dependency_complex_swapped(name, target, table) ==
  [name |-> name,
   version |-> complex_get_string(table, "version"),
   git |-> complex_get_string(table, "path"),
   path |-> complex_get_string(table, "path"),
   target |-> target]

Dependency_complex(name, target, table) ==
  [name |-> name,
   version |-> complex_get_string(table, "version"),
   git |-> complex_get_string(table, "git"),
   path |-> complex_get_string(table, "path"),
   target |-> target]

\* the body of `for (name, entry) in table.iter()` in get_inner
get_inner_entry(a, target, name, entry) ==
  IF entry.kind = "string"
  THEN [a EXCEPT !.items = Append(@, Dependency_simple(name, target, entry.val))]
  ELSE IF entry.kind = "table"
  THEN [a EXCEPT !.items = Append(@, Dependency_complex(name, target, entry))]
  ELSE LET p == IF IsSome(target)
                THEN "target." \o Unwrap(target) \o ".dependencies." \o name
                ELSE "dependencies." \o name
       IN  [a EXCEPT !.errors = Append(@, PathError(p, "string", entry_kind(entry)))]

RECURSIVE get_inner_iter(_, _, _, _)
get_inner_iter(a, target, entries, i) ==
  IF i > Len(entries) THEN a
  ELSE get_inner_iter(get_inner_entry(a, target, entries[i][1], entries[i][2]),
                      target, entries, i + 1)

get_inner(a, target, entry) ==
  IF entry.kind = "table" THEN get_inner_iter(a, target, entry.val, 1)
  ELSE LET p == IF IsSome(target)
                THEN "target." \o Unwrap(target) \o ".dependencies"
                ELSE "dependencies"
       IN  [a EXCEPT !.errors = Append(@, PathError(p, "table", entry_kind(entry)))]

\* `for (target, target_entry) in targets.iter()` in get_dependencies
RECURSIVE dependencies_targets_iter(_, _, _)
dependencies_targets_iter(a, targets, i) ==
  IF i > Len(targets) THEN a
  ELSE LET target == targets[i][1]
           target_entry == targets[i][2]
           e == IF target_entry.kind = "table"
                THEN table_get(target_entry, "dependencies") ELSE None
       IN  dependencies_targets_iter(
             IF IsSome(e) THEN get_inner(a, Some(target), Unwrap(e)) ELSE a,
             targets, i + 1)

\* get_dependencies up to its final `if errors.len() > 0`
dependencies_traversal(d) ==
  LET root == table_get(d, "dependencies")
      a1 == IF IsSome(root) THEN get_inner(NoAcc, None, Unwrap(root)) ELSE NoAcc
      t == table_get(d, "target")
  IN  IF IsSome(t) /\ Unwrap(t).kind = "table"
      THEN dependencies_targets_iter(a1, Unwrap(t).val, 1)
      ELSE a1

\* get_dependencies that fails only when nothing was extracted
get_dependencies_partial(d) ==
  LET a == dependencies_traversal(d)
  IN  IF Len(a.errors) > 0 /\ Len(a.items) = 0 THEN Err(a.errors) ELSE Ok(a.items)

get_dependencies(d) ==
  LET a == dependencies_traversal(d)
  IN  IF Len(a.errors) > 0 THEN Err(a.errors) ELSE Ok(a.items)

(***************************************************************************)
(* OutputTarget and its constructors                                       *)
(***************************************************************************)
OutputTarget_default ==
  [kind |-> "", name |-> None, path |-> None,
   test |-> TRUE, doctest |-> FALSE, bench |-> TRUE,
   doc |-> FALSE, plugin |-> FALSE, harness |-> TRUE]

OutputTarget_bin == [OutputTarget_default EXCEPT !.kind = "bin", !.doc = TRUE]

OutputTarget_lib ==
  [OutputTarget_default EXCEPT !.kind = "lib", !.doctest = TRUE, !.doc = TRUE]

OutputTarget_bench == [OutputTarget_default EXCEPT !.kind = "bench", !.test = FALSE]

\* test targets left with the benchmark flag of the common default
OutputTarget_test_unset == [OutputTarget_default EXCEPT !.kind = "test"]

OutputTarget_test == [OutputTarget_default EXCEPT !.kind = "test", !.bench = FALSE]

OutputTarget_example ==
  [OutputTarget_default EXCEPT !.kind = "example", !.bench = FALSE]

(***************************************************************************)
(* Manifest::get_output_targets                                            *)
(***************************************************************************)
\* get_string inside get_output_targets
target_get_string(entry, p) ==
  IF IsSome(entry)
  THEN IF Unwrap(entry).kind = "string" THEN Ok(Some(Unwrap(entry).val))
       ELSE Err(PathError(p, "string", entry_kind(Unwrap(entry))))
  ELSE Ok(None)

get_bool(entry, p) ==
  IF IsSome(entry)
  THEN IF Unwrap(entry).kind = "boolean" THEN Ok(Some(Unwrap(entry).val))
       ELSE Err(PathError(p, "boolean", entry_kind(Unwrap(entry))))
  ELSE Ok(None)

\* the six `if let Some(value) = try!(get_bool(..)) { target.f = value; }`
\* statements of get_target, in source order
FlagFields == <<"test", "doctest", "bench", "doc", "plugin", "harness">>

RECURSIVE get_target_flags(_, _, _, _)
get_target_flags(src, entry, target, i) ==
  IF i > Len(FlagFields) THEN Ok(target)
  ELSE LET f == FlagFields[i]
           r == get_bool(table_get(entry, f), src \o "." \o f)
       IN  IF r.tag = "Err" THEN r
           ELSE get_target_flags(src, entry,
                  IF IsSome(r.val) THEN [target EXCEPT ![f] = Unwrap(r.val)] ELSE target,
                  i + 1)

get_target(src, entry, target) ==
  LET n == target_get_string(table_get(entry, "name"), src \o ".name")
  IN  IF n.tag = "Err" THEN n
      ELSE LET p == target_get_string(table_get(entry, "path"), src \o ".path")
           IN  IF p.tag = "Err" THEN p
               ELSE get_target_flags(src, entry,
                      [target EXCEPT !.name = n.val, !.path = p.val], 1)

get_table(src, entry, target, a) ==
  IF IsSome(entry)
  THEN IF Unwrap(entry).kind = "table"
       THEN LET r == get_target(src, Unwrap(entry), target)
            IN  IF r.tag = "Ok" THEN [a EXCEPT !.items = Append(@, r.val)]
                ELSE [a EXCEPT !.errors = Append(@, r.val)]
       ELSE [a EXCEPT !.errors =
               Append(@, PathError(src, "table", entry_kind(Unwrap(entry))))]
  ELSE a

\* the loop of get_array leaving at the first element that is no table
RECURSIVE get_array_iter_abort(_, _, _, _, _)
get_array_iter_abort(src, array, ctor, a, i) ==
  IF i > Len(array) THEN a
  ELSE IF array[i].kind # "table" THEN get_table(src, Some(array[i]), ctor, a)
  ELSE get_array_iter_abort(src, array, ctor, get_table(src, Some(array[i]), ctor, a), i + 1)

\* `for entry in array.iter()` in get_array
RECURSIVE get_array_iter(_, _, _, _, _)
get_array_iter(src, array, ctor, a, i) ==
  IF i > Len(array) THEN a
  ELSE get_array_iter(src, array, ctor, get_table(src, Some(array[i]), ctor, a), i + 1)

get_array(src, entry, ctor, a) ==
  IF IsSome(entry)
  THEN IF Unwrap(entry).kind = "array"
       THEN LET kind == array_kind(Unwrap(entry))
            IN  IF kind # None /\ kind # Some("array of tables")
                THEN [a EXCEPT !.errors =
                        Append(@, PathError(src, "array of tables", Unwrap(kind)))]
                ELSE get_array_iter(src, Unwrap(entry).val, ctor, a, 1)
       ELSE [a EXCEPT !.errors =
               Append(@, PathError(src, "array", entry_kind(Unwrap(entry))))]
  ELSE a

\* get_output_targets up to its final `if errors.len() > 0`
targets_traversal(d) ==
  LET a1 == get_table("lib", table_get(d, "lib"), OutputTarget_lib, NoAcc)
      a2 == get_array("bin", table_get(d, "bin"), OutputTarget_bin, a1)
      a3 == get_array("bench", table_get(d, "bench"), OutputTarget_bench, a2)
      a4 == get_array("test", table_get(d, "test"), OutputTarget_test, a3)
  IN  get_array("example", table_get(d, "example"), OutputTarget_example, a4)

get_output_targets(d) ==
  LET a == targets_traversal(d)
  IN  IF Len(a.errors) > 0 THEN Err(a.errors) ELSE Ok(a.items)

(***************************************************************************)
(* Input documents and paths of the query operations.                      *)
(***************************************************************************)
Keys == <<"a", "b">>
KeySet == {Keys[i] : i \in 1..Len(Keys)}

\* every sequence over S of length at most n
RECURSIVE SeqsUpTo(_, _)
SeqsUpTo(S, n) ==
  IF n = 0 THEN {<<>>}
  ELSE LET shorter == SeqsUpTo(S, n - 1)
       IN  shorter \cup {Append(s, x) : s \in {t \in shorter : Len(t) = n - 1}, x \in S}

\* every table body with keys among ks (kept in that order) and values in V
RECURSIVE TablesOver(_, _)
TablesOver(ks, V) ==
  IF ks = <<>> THEN {<<>>}
  ELSE LET rest == TablesOver(Tail(ks), V)
       IN  rest \cup {<< <<Head(ks), v>> >> \o r : v \in V, r \in rest}

Scalars == {EString("s"), EInteger(7)}
Arrays == {EArray(a) : a \in SeqsUpTo(Scalars, MaxArrayLen)}

RECURSIVE NodesAt(_)
NodesAt(d) ==
  IF d = 0 THEN Scalars
  ELSE Scalars \cup {ETable(t) : t \in TablesOver(Keys, NodesAt(d - 1))}

QueryDocs == {ETable(t) : t \in TablesOver(Keys, NodesAt(MaxDepth - 1) \cup Arrays)}
Paths == SeqsUpTo(KeySet, MaxPathLen) \ {<<>>}

EmptyDoc == ETable(<<>>)

(***************************************************************************)
(* The query operations as actions on a Manifest.                          *)
(***************************************************************************)
InitQuery ==
  /\ doc \in QueryDocs
  /\ path \in Paths
  /\ op = "new"
  /\ result = NoResult
  /\ acc = NoAcc
  /\ slots = <<>>
  /\ heap = <<>>
  /\ frees = <<>>

Lookup ==
  /\ op' = "lookup"
  /\ result' = lookup(doc, path)
  /\ UNCHANGED <<doc, path, acc, slots, heap, frees>>

GetString ==
  /\ op' = "get_string"
  /\ result' = get_string(doc, path)
  /\ UNCHANGED <<doc, path, acc, slots, heap, frees>>

GetStringArray ==
  /\ op' = "get_string_array"
  /\ result' = get_string_array(doc, path)
  /\ UNCHANGED <<doc, path, acc, slots, heap, frees>>

NextQuery == Lookup \/ GetString \/ GetStringArray

SpecQuery == InitQuery /\ [][NextQuery]_vars

(***************************************************************************)
(* Input documents of the extractors.                                      *)
(***************************************************************************)
\* every table body with at most n of the keys ks (kept in that order), the
\* value under key k drawn from V(k)
RECURSIVE TablesUpTo(_, _, _)
TablesUpTo(ks, V(_), n) ==
  IF ks = <<>> \/ n = 0 THEN {<<>>}
  ELSE TablesUpTo(Tail(ks), V, n)
         \cup {<< <<Head(ks), v>> >> \o r :
                 v \in V(Head(ks)), r \in TablesUpTo(Tail(ks), V, n - 1)}

DepNames == <<"x", "y">>
TargetNames == <<"win", "nix">>

\* the table of a complex dependency: each of version, git, path absent, a
\* string of its own, or an integer
ComplexFieldVals(k) == {EString(k \o "-of-dep"), EInteger(7)}
ComplexTables ==
  {ETable(t) : t \in TablesUpTo(<<"version", "git", "path">>, ComplexFieldVals, MaxFields)}

DepValsDeep(k) == {EString("1.0"), EInteger(7), EArray(<<>>)} \cup ComplexTables
DepValsWide(k) ==
  {EString("1.0"), EInteger(7), ETable(<< <<"version", EString("2.0")>> >>)}

DepSections(V(_)) ==
  {EInteger(7)} \cup {ETable(t) : t \in TablesUpTo(DepNames, V, Len(DepNames))}

\* only a root `dependencies`, its entries of every shape
DepDocsDeep == {ETable(<< <<"dependencies", s>> >>) : s \in DepSections(DepValsDeep)}

\* root `dependencies` and `target`, entries of a few shapes
TargetVals(k) ==
  {EInteger(7), ETable(<<>>)}
    \cup {ETable(<< <<"dependencies", s>> >>) : s \in DepSections(DepValsWide)}
DepDocsWide ==
  LET RootVals(k) ==
        IF k = "dependencies" THEN DepSections(DepValsWide)
        ELSE {EInteger(7)}
               \cup {ETable(t) : t \in TablesUpTo(TargetNames, TargetVals, Len(TargetNames))}
  IN  {ETable(t) : t \in TablesUpTo(<<"dependencies", "target">>, RootVals, 2)}

DepDocs == DepDocsDeep \cup DepDocsWide

ArrayCollections == <<"bin", "bench", "test", "example">>
Collections == <<"lib">> \o ArrayCollections
StringFields == <<"name", "path">>
TargetFields == StringFields \o FlagFields

Range(s) == {s[i] : i \in 1..Len(s)}

TargetFieldVals(k) ==
  IF k \in Range(StringFields) THEN {EString(k \o "-of-target"), EInteger(7)}
  ELSE {EBoolean(TRUE), EBoolean(FALSE), EInteger(7)}
EntryTables == {ETable(t) : t \in TablesUpTo(TargetFields, TargetFieldVals, MaxFields)}

\* one collection holding one entry of every shape, alone or beside an
\* entry without fields
TargetDocsDeep ==
  {ETable(<< <<"lib", e>> >>) : e \in EntryTables}
    \cup {ETable(<< <<c, EArray(a)>> >>) :
            c \in Range(ArrayCollections),
            a \in UNION {{<<e>>, <<e, ETable(<<>>)>>, <<ETable(<<>>), e>>} : e \in EntryTables}}

\* one array collection, arrays of every length, elements of a few shapes
WideEntries == {ETable(<<>>), ETable(<< <<"bench", EInteger(7)>> >>)}
TargetDocsArrays ==
  {ETable(<< <<c, EArray(a)>> >>) :
     c \in Range(ArrayCollections),
     a \in SeqsUpTo({EInteger(7), EString("s")} \cup WideEntries, MaxArrayLen)}

\* every collection absent or present, values of a few shapes
CollectionVals(k) ==
  IF k = "lib" THEN {EInteger(7)} \cup WideEntries
  ELSE {EString("s"), EArray(<<>>), EArray(<<EInteger(7)>>)}
         \cup {EArray(<<e>>) : e \in WideEntries}
TargetDocsWide ==
  {ETable(t) : t \in TablesUpTo(Collections, CollectionVals, Len(Collections))}

TargetDocs == TargetDocsDeep \cup TargetDocsArrays \cup TargetDocsWide

(***************************************************************************)
(* The extractors as actions on a Manifest.                                *)
(***************************************************************************)
InitExtract ==
  /\ doc \in DepDocs \cup TargetDocs
  /\ path = <<>>
  /\ op = "new"
  /\ result = NoResult
  /\ acc = NoAcc
  /\ slots = <<>>
  /\ heap = <<>>
  /\ frees = <<>>

GetDependencies ==
  /\ op' = "get_dependencies"
  /\ acc' = dependencies_traversal(doc)
  /\ result' = get_dependencies(doc)
  /\ UNCHANGED <<doc, path, slots, heap, frees>>

GetOutputTargets ==
  /\ op' = "get_output_targets"
  /\ acc' = targets_traversal(doc)
  /\ result' = get_output_targets(doc)
  /\ UNCHANGED <<doc, path, slots, heap, frees>>

NextExtract == GetDependencies \/ GetOutputTargets

SpecExtract == InitExtract /\ [][NextExtract]_vars

(***************************************************************************)
(* Path resolution, stated on the tree: the node that the first n keys of  *)
(* p lead to from the root, if they all resolve.                           *)
(***************************************************************************)
RECURSIVE Walk(_, _, _)
Walk(node, p, n) ==
  IF n = 0 THEN Some(node)
  ELSE IF node.kind # "table" THEN None
  ELSE LET hits == {i \in 1..Len(node.val) : node.val[i][1] = p[1]}
       IN  IF hits = {} THEN None
           ELSE Walk(node.val[CHOOSE i \in hits : TRUE][2], Tail(p), n - 1)

Resolves(n) == IsSome(Walk(doc, path, n))
NodeAt(n) == Unwrap(Walk(doc, path, n))
LongestPrefix == CHOOSE n \in 0..Len(path) :
                   Resolves(n) /\ \A m \in (n + 1)..Len(path) : ~Resolves(m)

\* C1: lookup returns Vacant{depth} exactly when the longest prefix of the
\* path that resolves has `depth` segments and the table reached there lacks
\* the next key.
C1_VacantDepthIsResolvedPrefix ==
  op = "lookup" =>
    \A k \in 0..Len(path) :
      (result = Vacant(k)) <=>
        (LongestPrefix = k /\ k < Len(path) /\ NodeAt(k).kind = "table")

\* the segment with zero-based index k resolved to a non-table node and keys
\* remain after it
ConflictAt(k) ==
  /\ k + 1 < Len(path)
  /\ Resolves(k + 1)
  /\ NodeAt(k + 1).kind # "table"

\* C2: lookup returns Conflict{depth, kind} exactly when the segment with
\* zero-based index depth resolved to a non-table node of that kind while
\* keys remain; when the whole path resolves the final node is returned,
\* whatever its kind.
C2_ConflictAtNonTable ==
  op = "lookup" =>
    /\ (result.tag = "Conflict") <=> (\E k \in 0..(Len(path) - 1) : ConflictAt(k))
    /\ \A k \in 0..(Len(path) - 1) :
         ConflictAt(k) => result = Conflict(k, NodeAt(k + 1).kind)
    /\ (result.tag = "Ok") <=> Resolves(Len(path))
    /\ Resolves(Len(path)) => result = Ok(NodeAt(Len(path)))

C2_Witness ==
  /\ op = "lookup"
  /\ result = Conflict(1, "integer")
  /\ Len(path) = 3

\* C10: get_string, get_string_array, get_dependencies and get_output_targets
\* always finish with a structured outcome and never panic.
C10_NoPanic ==
  op \in {"get_string", "get_string_array", "get_dependencies", "get_output_targets"}
    => result.tag \in {"Ok", "Err", "Vacant", "Conflict"}

(***************************************************************************)
(* The schema, stated on the tree.                                         *)
(***************************************************************************)
HasKey(t, k) == \E i \in 1..Len(t.val) : t.val[i][1] = k
ValueAt(t, k) == t.val[CHOOSE i \in 1..Len(t.val) : t.val[i][1] = k][2]
OptString(t, k) ==
  IF HasKey(t, k) /\ ValueAt(t, k).kind = "string" THEN Some(ValueAt(t, k).val) ELSE None

Indices(s, P(_)) == {i \in 1..Len(s) : P(s[i])}

DepSectionViolates(s) ==
  \/ s.kind # "table"
  \/ \E i \in 1..Len(s.val) : s.val[i][2].kind \notin {"string", "table"}

\* the `dependencies` sections get_dependencies visits, as <<target, prefix, section>>
DepSections_visited ==
  (IF HasKey(doc, "dependencies")
   THEN {<<None, "dependencies", ValueAt(doc, "dependencies")>>} ELSE {})
  \cup
  (IF HasKey(doc, "target") /\ ValueAt(doc, "target").kind = "table"
   THEN LET ts == ValueAt(doc, "target").val
        IN  {<<Some(ts[j][1]), "target." \o ts[j][1] \o ".dependencies",
               ValueAt(ts[j][2], "dependencies")>> :
               j \in {j \in 1..Len(ts) :
                        ts[j][2].kind = "table" /\ HasKey(ts[j][2], "dependencies")}}
   ELSE {})

WrongFields(e) ==
  {f \in Range(StringFields) : HasKey(e, f) /\ ValueAt(e, f).kind # "string"}
    \cup {f \in Range(FlagFields) : HasKey(e, f) /\ ValueAt(e, f).kind # "boolean"}

TargetsViolation ==
  \/ /\ HasKey(doc, "lib")
     /\ \/ ValueAt(doc, "lib").kind # "table"
        \/ WrongFields(ValueAt(doc, "lib")) # {}
  \/ \E c \in Range(ArrayCollections) :
       /\ HasKey(doc, c)
       /\ \/ ValueAt(doc, c).kind # "array"
          \/ \E i \in 1..Len(ValueAt(doc, c).val) :
               \/ ValueAt(doc, c).val[i].kind # "table"
               \/ WrongFields(ValueAt(doc, c).val[i]) # {}

IsPathError(r) == DOMAIN r = {"path", "expected", "got"}

\* C3: both extractors are all-or-nothing: Ok with the result list exactly
\* when the document has no schema violation and none was recorded, otherwise
\* Err with the whole, non-empty error list; results and errors never mix.
C3_AllOrNothing ==
  op \in {"get_dependencies", "get_output_targets"} =>
    /\ result.tag \in {"Ok", "Err"}
    /\ (result.tag = "Ok") <=> (Len(acc.errors) = 0)
    /\ (result.tag = "Ok") <=>
         IF op = "get_dependencies"
         THEN \A s \in DepSections_visited : ~DepSectionViolates(s[3])
         ELSE ~TargetsViolation
    /\ result.tag = "Ok" =>
         /\ result.val = acc.items
         /\ \A i \in 1..Len(result.val) : ~IsPathError(result.val[i])
    /\ result.tag = "Err" =>
         /\ result.val = acc.errors
         /\ Len(result.val) > 0
         /\ \A i \in 1..Len(result.val) : IsPathError(result.val[i])

C3_Witness ==
  /\ op = "get_dependencies"
  /\ result.tag = "Err"
  /\ Len(result.val) = 2
  /\ Len(acc.items) > 0

\* one key/value pair of a visited `dependencies` table is classified on its own
DepEntryClassified(target, prefix, name, v) ==
  LET deps == {i \in 1..Len(acc.items) :
                 acc.items[i].name = name /\ acc.items[i].target = target}
      errs == {i \in 1..Len(acc.errors) : acc.errors[i].path = prefix \o "." \o name}
  IN  CASE v.kind = "string" ->
             /\ errs = {}
             /\ Cardinality(deps) = 1
             /\ \A i \in deps :
                  acc.items[i] = [name |-> name, version |-> Some(v.val), git |-> None,
                                  path |-> None, target |-> target]
        [] v.kind = "table" ->
             /\ errs = {}
             /\ Cardinality(deps) = 1
             /\ \A i \in deps :
                  acc.items[i] = [name |-> name, version |-> OptString(v, "version"),
                                  git |-> OptString(v, "git"),
                                  path |-> OptString(v, "path"), target |-> target]
        [] OTHER ->
             /\ deps = {}
             /\ Cardinality(errs) = 1
             /\ \A i \in errs :
                  acc.errors[i] = [path |-> prefix \o "." \o name, expected |-> "string",
                                   got |-> v.kind]

\* C4: in get_dependencies every key/value pair of a `dependencies` table is
\* classified independently of its siblings: a string gives a simple
\* dependency, a table a dependency whose version, git and path are the
\* strings under those keys or absent, any other kind no dependency and one
\* Path Error `<prefix>.<name>` expecting `string`; nothing else is recorded.
C4_DependencyClassification ==
  op = "get_dependencies" =>
    /\ \A s \in DepSections_visited :
         s[3].kind = "table" =>
           \A i \in 1..Len(s[3].val) :
             DepEntryClassified(s[1], s[2], s[3].val[i][1], s[3].val[i][2])
    /\ Len(acc.errors) =
         Cardinality({<<s, i>> \in DepSections_visited \X (0..Len(DepNames)) :
                        \/ i = 0 /\ s[3].kind # "table"
                        \/ /\ i > 0
                           /\ s[3].kind = "table"
                           /\ i <= Len(s[3].val)
                           /\ s[3].val[i][2].kind \notin {"string", "table"}})

C4_Witness ==
  /\ op = "get_dependencies"
  /\ \E i \in 1..Len(acc.items) :
       /\ acc.items[i].target = Some("win")
       /\ acc.items[i].version = Some("2.0")
  /\ \E i \in 1..Len(acc.items) :
       /\ acc.items[i].target = None
       /\ acc.items[i].version = Some("1.0")
  /\ \E i \in 1..Len(acc.errors) : acc.errors[i].path = "target.win.dependencies.y"

\* the entries get_output_targets reads, as <<collection, entry>>, in the
\* order it reads them
EntriesOf(c) ==
  IF ~HasKey(doc, c) THEN <<>>
  ELSE IF c = "lib" THEN << <<c, ValueAt(doc, c)>> >>
  ELSE [i \in 1..Len(ValueAt(doc, c).val) |-> <<c, ValueAt(doc, c).val[i]>>]

AllEntries ==
  EntriesOf("lib") \o EntriesOf("bin") \o EntriesOf("bench") \o EntriesOf("test")
    \o EntriesOf("example")

\* the defaults of each kind for test, doctest, bench, doc, plugin, harness
KindDefaults ==
  [lib |-> <<TRUE, TRUE, TRUE, TRUE, FALSE, TRUE>>,
   bin |-> <<TRUE, FALSE, TRUE, TRUE, FALSE, TRUE>>,
   bench |-> <<FALSE, FALSE, TRUE, FALSE, FALSE, TRUE>>,
   test |-> <<TRUE, FALSE, FALSE, FALSE, FALSE, TRUE>>,
   example |-> <<TRUE, FALSE, FALSE, FALSE, FALSE, TRUE>>]

\* C5: every output target returned has, for each of the six flags, the
\* boolean of its own entry table when the field is present and otherwise the
\* default of its kind; one target is returned per entry, in order, so an
\* override in one entry changes no other.
C5_FlagsOwnOrDefault ==
  (op = "get_output_targets" /\ result.tag = "Ok") =>
    /\ Len(result.val) = Len(AllEntries)
    /\ \A i \in 1..Len(result.val) :
         LET t == result.val[i]
             k == AllEntries[i][1]
             e == AllEntries[i][2]
         IN  /\ t.kind = k
             /\ \A j \in 1..Len(FlagFields) :
                  t[FlagFields[j]] =
                    IF HasKey(e, FlagFields[j]) THEN ValueAt(e, FlagFields[j]).val
                    ELSE KindDefaults[k][j]

C5_Witness ==
  /\ op = "get_output_targets"
  /\ result.tag = "Ok"
  /\ Len(result.val) = 2
  /\ result.val[1].kind = "test"
  /\ result.val[1].bench = TRUE
  /\ result.val[1].harness = FALSE
  /\ result.val[2].bench = FALSE
  /\ result.val[2].harness = TRUE

\* the entry tables of collection c that get_output_targets examines
ExaminedEntries(c) ==
  IF ~HasKey(doc, c) THEN {}
  ELSE IF c = "lib"
       THEN IF ValueAt(doc, c).kind = "table" THEN {1} ELSE {}
  ELSE LET v == ValueAt(doc, c)
       IN  IF v.kind = "array" /\ Len(v.val) > 0 /\ v.val[1].kind = "table"
           THEN {i \in 1..Len(v.val) : v.val[i].kind = "table"}
           ELSE {}

ErrorsAt(p) == {i \in 1..Len(acc.errors) : acc.errors[i].path = p}

\* C6: every wrong-kind field present in the `lib` table or in an examined
\* entry table of bin/bench/test/example, two or more in one entry included,
\* has its own Path Error `<src>.<field>` in the error list.
C6_EveryWrongFieldReported ==
  op = "get_output_targets" =>
    \A c \in Range(Collections) : \A f \in Range(TargetFields) :
      Cardinality(ErrorsAt(c \o "." \o f)) =
        Cardinality({i \in ExaminedEntries(c) : f \in WrongFields(EntriesOf(c)[i][2])})

FieldErrors(c) == UNION {ErrorsAt(c \o "." \o f) : f \in Range(TargetFields)}
TargetsOf(c) == {i \in 1..Len(acc.items) : acc.items[i].kind = c}

\* C7: for each of bin, bench, test, example: an empty array gives no target
\* and no error; an array whose first element is no table gives no target and
\* the single error {collection, "array of tables", "array of <kind>s"};
\* otherwise every element is handled: a table gives a target or its field
\* error, a non-table element one error {collection, "table", its kind}.
C7_ArrayCollections ==
  op = "get_output_targets" =>
    \A c \in Range(ArrayCollections) :
      (HasKey(doc, c) /\ ValueAt(doc, c).kind = "array") =>
        LET A == ValueAt(doc, c).val
            tables == {i \in 1..Len(A) : A[i].kind = "table"}
        IN  IF Len(A) = 0
            THEN TargetsOf(c) = {} /\ ErrorsAt(c) = {} /\ FieldErrors(c) = {}
            ELSE IF A[1].kind # "table"
            THEN /\ TargetsOf(c) = {}
                 /\ FieldErrors(c) = {}
                 /\ Cardinality(ErrorsAt(c)) = 1
                 /\ \A i \in ErrorsAt(c) :
                      acc.errors[i] = [path |-> c, expected |-> "array of tables",
                                       got |-> "array of " \o A[1].kind \o "s"]
            ELSE /\ Cardinality(TargetsOf(c)) =
                      Cardinality({i \in tables : WrongFields(A[i]) = {}})
                 /\ Cardinality(FieldErrors(c)) =
                      Cardinality({i \in tables : WrongFields(A[i]) # {}})
                 /\ Cardinality(ErrorsAt(c)) = Len(A) - Cardinality(tables)
                 /\ \A k \in {"string", "integer", "array"} :
                      Cardinality({i \in ErrorsAt(c) :
                                     acc.errors[i] = [path |-> c, expected |-> "table",
                                                      got |-> k]})
                        = Cardinality({i \in 1..Len(A) : A[i].kind = k})

C7_Witness ==
  /\ op = "get_output_targets"
  /\ HasKey(doc, "bench")
  /\ ValueAt(doc, "bench").kind = "array"
  /\ Len(ValueAt(doc, "bench").val) = 3
  /\ ValueAt(doc, "bench").val[1].kind = "table"
  /\ ValueAt(doc, "bench").val[2].kind = "integer"
  /\ ValueAt(doc, "bench").val[3].kind = "table"
  /\ Cardinality(TargetsOf("bench")) = 2
  /\ Cardinality(ErrorsAt("bench")) = 1

(***************************************************************************)
(* RawSlice, OwnedSlice, BorrowedSlice.  A pointer is null, the non-null   *)
(* dangling pointer of a boxed slice without storage, the address of a     *)
(* heap block, or the address of static string data.                       *)
(***************************************************************************)
Null == <<"null">>
Dangling == <<"dangling">>
HeapPtr(k) == <<"heap", k>>
StaticPtr(s) == <<"static", s>>

\* `as INT32` of a length: lengths above the largest INT32 wrap around
Int32Max == 2147483647
ToInt32(n) == IF n <= Int32Max THEN n ELSE ((n - Int32Max) - 1) - Int32Max - 1

RawSlice(arr, len) == [arr |-> arr, len |-> len]

RawSlice_empty == RawSlice(Null, 0)

\* Vec::into_boxed_slice followed by as_mut_ptr: the block the vector's
\* elements end up in, allocated at the next free address of heap h
boxed_ptr(h, vec) == IF Len(vec) = 0 THEN Dangling ELSE HeapPtr(Len(h) + 1)
boxed_heap(h, vec) == IF Len(vec) = 0 THEN h ELSE Append(h, vec)

RawSlice_from_vec(h, vec) == RawSlice(boxed_ptr(h, vec), ToInt32(Len(vec)))

OwnedSlice_empty == RawSlice_empty

\* the closure handed to from_slice, applied to one element
Mapped(e) == <<"f", e>>
OwnedSlice_from_slice(h, src) ==
  RawSlice_from_vec(h, [i \in 1..Len(src) |-> Mapped(src[i])])

OwnedSlice_from_str(h, src) == RawSlice(boxed_ptr(h, src), ToInt32(Len(src)))

BorrowedSlice_empty == RawSlice_empty

BorrowedSlice_from_static(string) == RawSlice(StaticPtr(string), ToInt32(Len(string)))

\* a buffer handed out: its data, whether it is an OwnedSlice, the
\* constructor that made it, the block allocated for it and the number of
\* drops applied to it
Slot(data, owner, ctor, block) ==
  [data |-> data, owner |-> owner, ctor |-> ctor, block |-> block, drops |-> 0]

Alphabet == {"a"}
Strings == SeqsUpTo(Alphabet, MaxLen)

InitSlice ==
  /\ doc = EmptyDoc
  /\ path = <<>>
  /\ op = "new"
  /\ result = NoResult
  /\ acc = NoAcc
  /\ slots = <<>>
  /\ heap = <<>>
  /\ frees = <<>>

\* a constructor that allocates for the sequence v hands out data
Allocating(data, owner, ctor, v) ==
  /\ Len(slots) < MaxSlots
  /\ slots' = Append(slots, Slot(data, owner, ctor, boxed_ptr(heap, v)))
  /\ heap' = boxed_heap(heap, v)
  /\ frees' = IF Len(v) = 0 THEN frees ELSE Append(frees, 0)
  /\ UNCHANGED <<doc, path, op, result, acc>>

NotAllocating(data, owner, ctor) ==
  /\ Len(slots) < MaxSlots
  /\ slots' = Append(slots, Slot(data, owner, ctor, Null))
  /\ UNCHANGED <<doc, path, op, result, acc, heap, frees>>

RawEmpty == NotAllocating(RawSlice_empty, "raw", "RawSlice::empty")

RawFromVec ==
  \E vec \in Strings :
    Allocating(RawSlice_from_vec(heap, vec), "raw", "RawSlice::from_vec", vec)

OwnedEmpty == NotAllocating(OwnedSlice_empty, "owned", "OwnedSlice::empty")

OwnedFromSlice ==
  \E src \in Strings :
    Allocating(OwnedSlice_from_slice(heap, src), "owned", "OwnedSlice::from_slice",
               [i \in 1..Len(src) |-> Mapped(src[i])])

OwnedFromStr ==
  \E src \in Strings :
    Allocating(OwnedSlice_from_str(heap, src), "owned", "OwnedSlice::from_str", src)

OwnedFromStrOpt ==
  \/ \E s \in Strings :
       Allocating(OwnedSlice_from_str(heap, s), "owned", "OwnedSlice::from_str_opt", s)
  \/ NotAllocating(OwnedSlice_empty, "owned", "OwnedSlice::from_str_opt")

BorrowedEmpty == NotAllocating(BorrowedSlice_empty, "borrowed", "BorrowedSlice::empty")

BorrowedFromStatic ==
  \E string \in Strings :
    NotAllocating(BorrowedSlice_from_static(string), "borrowed",
                  "BorrowedSlice::from_static")

\* <OwnedSlice as Drop>::drop without the reset of the pointer
drop_keeping_ptr(this, f) ==
  IF this.arr # Null
  THEN [data |-> this,
        frees |-> IF this.arr[1] = "heap" THEN [f EXCEPT ![this.arr[2]] = @ + 1] ELSE f]
  ELSE [data |-> this, frees |-> f]

\* <OwnedSlice as Drop>::drop: the buffer and the deallocation counts after it;
\* a boxed slice without storage deallocates nothing
drop(this, f) ==
  IF this.arr # Null
  THEN [data |-> RawSlice(Null, 0),
        frees |-> IF this.arr[1] = "heap" THEN [f EXCEPT ![this.arr[2]] = @ + 1] ELSE f]
  ELSE [data |-> this, frees |-> f]

Drop ==
  \E i \in 1..Len(slots) :
    /\ slots[i].owner = "owned"
    /\ slots[i].drops < MaxDrops
    /\ LET r == drop(slots[i].data, frees)
       IN  /\ slots' = [slots EXCEPT ![i].data = r.data, ![i].drops = @ + 1]
           /\ frees' = r.frees
    /\ UNCHANGED <<doc, path, op, result, acc, heap>>

NextSlice ==
  \/ RawEmpty
  \/ RawFromVec
  \/ OwnedEmpty
  \/ OwnedFromSlice
  \/ OwnedFromStr
  \/ OwnedFromStrOpt
  \/ BorrowedEmpty
  \/ BorrowedFromStatic
  \/ Drop

SpecSlice == InitSlice /\ [][NextSlice]_vars

\* C8: every flat buffer made by a constructor has length zero exactly when
\* its pointer is null.
C8_EmptyIsNull ==
  \A i \in 1..Len(slots) :
    slots[i].drops = 0 => ((slots[i].data.len = 0) <=> (slots[i].data.arr = Null))

\* C9: whatever releases are applied to an OwnedSlice, its block is freed at
\* most once: before the first release the block is not freed, after it the
\* block is freed once and the buffer is the empty sentinel, and releasing a
\* buffer that is the empty sentinel frees nothing and leaves it as it is.
C9_FreedAtMostOnce ==
  /\ \A k \in 1..Len(frees) : frees[k] <= 1
  /\ \A i \in 1..Len(slots) :
       slots[i].owner = "owned" =>
         /\ slots[i].drops = 0 =>
              (slots[i].block[1] = "heap" => frees[slots[i].block[2]] = 0)
         /\ slots[i].drops >= 1 =>
              /\ slots[i].data = RawSlice(Null, 0)
              /\ slots[i].block[1] = "heap" => frees[slots[i].block[2]] = 1
         /\ slots[i].block = Null => slots[i].data = RawSlice(Null, 0)
  /\ \A k \in 1..Len(frees) :
       frees[k] = 1 =>
         \E i \in 1..Len(slots) :
           slots[i].owner = "owned" /\ slots[i].block = HeapPtr(k) /\ slots[i].drops >= 1

C9_Witness ==
  \E i \in 1..Len(slots) :
    /\ slots[i].owner = "owned"
    /\ slots[i].drops = 2
    /\ slots[i].block[1] = "heap"
    /\ frees[slots[i].block[2]] = 1

\* C11: when get_string or get_string_array returns Conflict{depth, kind}
\* because the fully resolved node has the wrong type, depth is the index of
\* the last segment of the path (so depth < path length) and kind is the kind
\* of the node found there, as in the Conflict values of lookup.
C11_FinalConflictNamesSegment ==
  (/\ op \in {"get_string", "get_string_array"}
   /\ result.tag = "Conflict"
   /\ Resolves(Len(path))) =>
    /\ result.depth < Len(path)
    /\ result.depth = Len(path) - 1
    /\ result.kind = NodeAt(Len(path)).kind

====
